---- MODULE Spec2Model ----
(***************************************************************************)
(* Model of the two batch scripts of the repository:                       *)
(*   scripts/compare_trees.py      (the Tree Comparator)                   *)
(*   scripts/summarize_results.py  (the Results Summarizer)                *)
(*                                                                         *)
(* Spec          : one run of compare_trees.main                           *)
(* SpecRates     : the FN/FP rate expressions on arbitrary split sets      *)
(* SpecSummarizer: one run of summarize_results.main                       *)
(***************************************************************************)
EXTENDS Integers, Sequences, FiniteSets, TLC

VARIABLES
    \* ---- compare_trees.py ----
    pc,              \* position in main
    argc,            \* len(sys.argv) - 1
    taxa,            \* the TaxonNamespace shared by both trees: labels in order of addition
    true_tree,       \* tree read from true_tree_file
    estimated_tree,  \* tree read from estimated_tree_file
    common_taxa,     \* the set computed at lines 68-69
    rf_dist,         \* treecompare.symmetric_difference result
    true_splits,     \* set of split bitmasks of the true tree
    est_splits,      \* set of split bitmasks of the estimated tree
    FN,              \* false negative rate, a fraction [num, den]
    FP,              \* false positive rate, a fraction [num, den]
    output_file,     \* content of the output report file
    exc,             \* message of the exception being handled ("" if none)
    exit_code,       \* process exit code (-1 while running)
    \* ---- summarize_results.py ----
    spc,             \* position in main
    sargc,           \* len(sys.argv) - 1
    results_df,      \* the raw table: a sequence of rows
    model_idx,       \* index of the model of the outer loop
    listing,         \* os.listdir(model_dir) of the current model
    rep_idx,         \* index into listing
    method_idx,      \* index into methods
    last_file,       \* content of the report file parsed last
    found,           \* the report files os.path.exists found, in loop order
    raw_csv,         \* content of raw_results.csv
    summary_csv,     \* content of summary_results.csv
    plots,           \* names of the plot files written
    sexit            \* process exit code (-1 while running)

cmpVars == <<pc, argc, taxa, true_tree, estimated_tree, common_taxa, rf_dist,
             true_splits, est_splits, FN, FP, output_file, exc, exit_code>>

sumVars == <<spc, sargc, results_df, model_idx, listing, rep_idx, method_idx,
             last_file, found, raw_csv, summary_csv, plots, sexit>>

vars == <<cmpVars, sumVars>>

-----------------------------------------------------------------------------
(* Bounds and input universe *)

\* largest number of leaves of a generated input tree
MaxLeaves == 4

\* the taxon labels input trees are built from (the labels of the worked example)
LabelSeq == <<"A", "B", "C", "D", "E">>

Labels == {LabelSeq[i] : i \in 1..Len(LabelSeq)}

LabelIndex(l) == CHOOSE i \in 1..Len(LabelSeq) : LabelSeq[i] = l

RECURSIVE SortedSeq(_)
\* the labels of S in label order
SortedSeq(S) ==
    IF S = {} THEN <<>>
    ELSE LET m == CHOOSE x \in S : \A y \in S : LabelIndex(x) <= LabelIndex(y)
         IN  <<m>> \o SortedSeq(S \ {m})

RECURSIVE Partitions(_)
\* all partitions of the set S into non-empty blocks
Partitions(S) ==
    IF S = {} THEN {{}}
    ELSE LET x == CHOOSE x \in S : TRUE
         IN  UNION { { {B \cup {x}} \cup P : P \in Partitions(S \ (B \cup {x})) }
                     : B \in SUBSET (S \ {x}) }

RECURSIVE Hierarchies(_)
\* all rooted trees with leaf set S whose internal nodes have >= 2 children,
\* each given as its set of nodes, a node being the set of leaf labels below it
Hierarchies(S) ==
    IF Cardinality(S) = 1 THEN {{S}}
    ELSE UNION {
           LET sub == UNION {Hierarchies(b) : b \in P}
           IN  { {S} \cup UNION {f[b] : b \in P}
                 : f \in {g \in [P -> sub] : \A b \in P : g[b] \in Hierarchies(b)} }
           : P \in {Q \in Partitions(S) : Cardinality(Q) >= 2} }

\* a parsed tree: leaves in the order the file names them, nodes as leaf sets
MkTree(order, nodes) == [leaves |-> order, clades |-> nodes]

NoTree == MkTree(<<>>, {})

RECURSIVE Reverse(_)
Reverse(s) == IF s = <<>> THEN <<>> ELSE Append(Reverse(Tail(s)), Head(s))

\* every tree of up to MaxLeaves leaves written with its leaves in label
\* order, and every smaller one also written with them in the opposite order
GeneratedTrees ==
    UNION { {MkTree(SortedSeq(S), h) : h \in Hierarchies(S)}
            \cup (IF Cardinality(S) < MaxLeaves
                  THEN {MkTree(Reverse(SortedSeq(S)), h) : h \in Hierarchies(S)}
                  ELSE {})
            : S \in {T \in SUBSET Labels : Cardinality(T) >= 1 /\ Cardinality(T) <= MaxLeaves} }

\* (((A,B),C),(D,E));
ExampleTrueTree ==
    MkTree(<<"A", "B", "C", "D", "E">>,
           {{"A"}, {"B"}, {"C"}, {"D"}, {"E"}, {"A", "B"}, {"A", "B", "C"}, {"D", "E"},
            {"A", "B", "C", "D", "E"}})

\* ((A,B),(C,(D,E)));
ExampleEstimatedTree ==
    MkTree(<<"A", "B", "C", "D", "E">>,
           {{"A"}, {"B"}, {"C"}, {"D"}, {"E"}, {"A", "B"}, {"D", "E"}, {"C", "D", "E"},
            {"A", "B", "C", "D", "E"}})

Trees == GeneratedTrees \cup {ExampleTrueTree, ExampleEstimatedTree}

\* a tree file: a tree written in one of the two schemas, or a file that is
\* neither (unreadable, missing, garbage)
TreeFiles ==
    [schema : {"newick", "nexus"}, tree : Trees] \cup {[schema |-> "none", tree |-> NoTree]}

LeafSet(t) == {t.leaves[i] : i \in 1..Len(t.leaves)}

-----------------------------------------------------------------------------
(* dendropy, as compare_trees.py uses it *)

RECURSIVE AddTaxa(_, _)
\* Tree.get(..., taxon_namespace=taxa): every leaf label not yet in the
\* namespace is appended to it, in the order the file names the leaves
AddTaxa(ns, leaves) ==
    IF leaves = <<>> THEN ns
    ELSE LET l == Head(leaves)
         IN  AddTaxa(IF \E i \in 1..Len(ns) : ns[i] = l THEN ns ELSE Append(ns, l),
                     Tail(leaves))

\* dendropy.Tree.get(path=..., schema=schema): the tree, or an exception;
\* a read that fails is taken to add no taxon to the namespace
TreeGet(file, schema) ==
    IF file.schema = schema
    THEN [ok |-> TRUE, tree |-> file.tree, msg |-> ""]
    ELSE [ok |-> FALSE, tree |-> NoTree, msg |-> "cannot read tree as " \o schema]

\* try Newick; on any exception retry as Nexus, whose exception propagates
ReadTree(file) ==
    LET first == TreeGet(file, "newick")
    IN  IF first.ok THEN first ELSE TreeGet(file, "nexus")

\* true_tree.taxon_namespace: the namespace object handed to Tree.get
TrueTreeNamespace(ns) == ns

\* estimated_tree.taxon_namespace: the same namespace object
EstimatedTreeNamespace(ns) == ns

NamespaceLabels(ns) == {ns[i] : i \in 1..Len(ns)}

\* set(t.label for t in true_tree.taxon_namespace).intersection(
\*     set(t.label for t in estimated_tree.taxon_namespace))
CommonTaxa(ns) ==
    NamespaceLabels(TrueTreeNamespace(ns)) \cap NamespaceLabels(EstimatedTreeNamespace(ns))

\* len(common_taxa) < len(true_tree.taxon_namespace)
\*   or len(common_taxa) < len(estimated_tree.taxon_namespace)
NeedsPruning(common, ns) ==
    \/ Cardinality(common) < Len(TrueTreeNamespace(ns))
    \/ Cardinality(common) < Len(EstimatedTreeNamespace(ns))

\* tree.retain_taxa_with_labels(labels): leaves outside labels are removed,
\* emptied nodes dropped and single-child nodes merged with their child
RetainTaxaWithLabels(t, labels) ==
    MkTree(SelectSeq(t.leaves, LAMBDA l : l \in labels),
           {c \cap labels : c \in t.clades} \ {{}})

\* taxon_namespace.taxon_bitmask(taxon): 1 << index of the taxon
TaxonBitmask(ns, l) == 2 ^ ((CHOOSE i \in 1..Len(ns) : ns[i] = l) - 1)

RECURSIVE LeafsetBitmask(_, _)
\* the OR of the taxon bitmasks of the leaves below a node
LeafsetBitmask(ns, clade) ==
    IF clade = {} THEN 0
    ELSE LET l == CHOOSE x \in clade : TRUE
         IN  TaxonBitmask(ns, l) + LeafsetBitmask(ns, clade \ {l})

\* mutant: the trees read as unrooted, each split normalized to the side
\* without the first taxon
SplitBitmasksUnrooted(ns, t) ==
    LET full == LeafsetBitmask(ns, LeafSet(t))
    IN  { LET m == LeafsetBitmask(ns, c) IN IF m % 2 = 1 THEN full - m ELSE m
          : c \in t.clades }

\* mutant: each tree encoded over a namespace of its own
SplitBitmasksOwnNamespace(ns, t) == {LeafsetBitmask(t.leaves, c) : c \in t.clades}

\* tree.encode_bipartitions() on a rooted tree, then
\* set(b.split_bitmask for b in tree.bipartition_encoding): one bipartition per
\* edge (leaf edges and the root edge included); rooted, so split_bitmask is
\* the leafset bitmask, not normalized
SplitBitmasks(ns, t) == {LeafsetBitmask(ns, c) : c \in t.clades}

\* mutant: only the bipartitions of the first tree missing from the second
SymmetricDifferenceOneSided(ns, t1, t2) ==
    Cardinality(SplitBitmasks(ns, t1) \ SplitBitmasks(ns, t2))

\* treecompare.symmetric_difference(tree1, tree2): both trees are re-encoded,
\* the result is the number of bipartitions of one tree missing from the other
\* plus the number the other way round
SymmetricDifference(ns, t1, t2) ==
    LET b1 == SplitBitmasks(ns, t1)
        b2 == SplitBitmasks(ns, t2)
    IN  Cardinality(b1 \ b2) + Cardinality(b2 \ b1)

-----------------------------------------------------------------------------
(* compare_trees.py: rates and reports *)

\* missing_splits = true_splits - est_splits
MissingSplits(ts, es) == ts \ es

\* extra_splits = est_splits - true_splits
ExtraSplits(ts, es) == es \ ts

\* mutant: the length itself
DenominatorUnguarded(splits) == Cardinality(splits)

\* len(x) if x else 1
Denominator(splits) == IF splits # {} THEN Cardinality(splits) ELSE 1

\* FN = len(missing_splits) / (len(true_splits) if true_splits else 1)
FalseNegativeRate(ts, es) ==
    [num |-> Cardinality(MissingSplits(ts, es)), den |-> Denominator(ts)]

\* FP = len(extra_splits) / (len(est_splits) if est_splits else 1)
FalsePositiveRate(ts, es) ==
    [num |-> Cardinality(ExtraSplits(ts, es)), den |-> Denominator(es)]

NoRate == [num |-> 0, den |-> 0]

NoFile == [kind |-> "absent"]

\* a file opened for writing whose writes did not all complete
PartialFile == [kind |-> "partial"]

\* lines 75-84
InvalidReport(ns, common) ==
    [kind |-> "invalid",
     true_taxa |-> Len(TrueTreeNamespace(ns)),
     est_taxa |-> Len(EstimatedTreeNamespace(ns)),
     common |-> Cardinality(common),
     rf |-> "N/A", fn |-> "N/A", fp |-> "N/A"]

\* lines 120-124
MetricReport(rf, fn, fp) == [kind |-> "metrics", rf |-> rf, fn |-> fn, fp |-> fp]

\* lines 130-131
ErrorReport(msg) == [kind |-> "error", msg |-> msg]

\* what `with open(output_file, 'w') as f: f.write(...)` can do: complete,
\* raise from open (file untouched), or raise from a write (file truncated)
IOOutcomes == {"ok", "open_error", "write_error"}

IOMessage(io) == IF io = "open_error" THEN "cannot open output" ELSE "cannot write output"

FileAfter(old, io, report) ==
    CASE io = "ok" -> report
      [] io = "open_error" -> old
      [] OTHER -> PartialFile

-----------------------------------------------------------------------------
(* compare_trees.py: main *)

ArgCounts == {2, 3, 4}

\* lines 13-15: wrong arity prints the usage and exits 1
Usage ==
    /\ pc = "main"
    /\ argc # 3
    /\ pc' = "usage_exit"
    /\ exit_code' = 1
    /\ UNCHANGED <<argc, taxa, true_tree, estimated_tree, common_taxa, rf_dist,
                   true_splits, est_splits, FN, FP, output_file, exc>>
    /\ UNCHANGED sumVars

\* lines 17-23
EnterTry ==
    /\ pc = "main"
    /\ argc = 3
    /\ taxa' = <<>>
    /\ pc' = "read_true"
    /\ UNCHANGED <<argc, true_tree, estimated_tree, common_taxa, rf_dist,
                   true_splits, est_splits, FN, FP, output_file, exc, exit_code>>
    /\ UNCHANGED sumVars

\* lines 26-42
ReadTrueTree ==
    /\ pc = "read_true"
    /\ \E file \in TreeFiles :
         LET r == ReadTree(file)
         IN  IF r.ok
             THEN /\ true_tree' = r.tree
                  /\ taxa' = AddTaxa(taxa, r.tree.leaves)
                  /\ pc' = "read_est"
                  /\ exc' = exc
             ELSE /\ pc' = "except"
                  /\ exc' = r.msg
                  /\ UNCHANGED <<true_tree, taxa>>
    /\ UNCHANGED <<argc, estimated_tree, common_taxa, rf_dist, true_splits,
                   est_splits, FN, FP, output_file, exit_code>>
    /\ UNCHANGED sumVars

\* lines 45-61
ReadEstimatedTree ==
    /\ pc = "read_est"
    /\ \E file \in TreeFiles :
         LET r == ReadTree(file)
         IN  IF r.ok
             THEN /\ estimated_tree' = r.tree
                  /\ taxa' = AddTaxa(taxa, r.tree.leaves)
                  /\ pc' = "common"
                  /\ exc' = exc
             ELSE /\ pc' = "except"
                  /\ exc' = r.msg
                  /\ UNCHANGED <<estimated_tree, taxa>>
    /\ UNCHANGED <<argc, true_tree, common_taxa, rf_dist, true_splits,
                   est_splits, FN, FP, output_file, exit_code>>
    /\ UNCHANGED sumVars

\* lines 68-73
ComputeCommonTaxa ==
    /\ pc = "common"
    /\ common_taxa' = CommonTaxa(taxa)
    /\ pc' = IF Cardinality(common_taxa') < 3 THEN "write_invalid" ELSE "prune"
    /\ UNCHANGED <<argc, taxa, true_tree, estimated_tree, rf_dist, true_splits,
                   est_splits, FN, FP, output_file, exc, exit_code>>
    /\ UNCHANGED sumVars

\* lines 74-85
WriteInvalid ==
    /\ pc = "write_invalid"
    /\ \E io \in IOOutcomes :
         /\ output_file' = FileAfter(output_file, io, InvalidReport(taxa, common_taxa))
         /\ IF io = "ok"
            THEN pc' = "returned" /\ exit_code' = 0 /\ exc' = exc
            ELSE pc' = "except" /\ exit_code' = exit_code /\ exc' = IOMessage(io)
    /\ UNCHANGED <<argc, taxa, true_tree, estimated_tree, common_taxa, rf_dist,
                   true_splits, est_splits, FN, FP>>
    /\ UNCHANGED sumVars

\* lines 88-98
Prune ==
    /\ pc = "prune"
    /\ IF NeedsPruning(common_taxa, taxa)
       THEN /\ true_tree' = RetainTaxaWithLabels(true_tree, common_taxa)
            /\ estimated_tree' = RetainTaxaWithLabels(estimated_tree, common_taxa)
       ELSE UNCHANGED <<true_tree, estimated_tree>>
    /\ pc' = "metrics"
    /\ UNCHANGED <<argc, taxa, common_taxa, rf_dist, true_splits, est_splits,
                   FN, FP, output_file, exc, exit_code>>
    /\ UNCHANGED sumVars

\* lines 101-117
Metrics ==
    /\ pc = "metrics"
    /\ rf_dist' = SymmetricDifference(taxa, true_tree, estimated_tree)
    /\ true_splits' = SplitBitmasks(taxa, true_tree)
    /\ est_splits' = SplitBitmasks(taxa, estimated_tree)
    /\ FN' = FalseNegativeRate(true_splits', est_splits')
    /\ FP' = FalsePositiveRate(true_splits', est_splits')
    /\ pc' = "write_report"
    /\ UNCHANGED <<argc, taxa, true_tree, estimated_tree, common_taxa,
                   output_file, exc, exit_code>>
    /\ UNCHANGED sumVars

\* lines 120-126
WriteReport ==
    /\ pc = "write_report"
    /\ \E io \in IOOutcomes :
         /\ output_file' = FileAfter(output_file, io, MetricReport(rf_dist, FN, FP))
         /\ IF io = "ok"
            THEN pc' = "returned" /\ exit_code' = 0 /\ exc' = exc
            ELSE pc' = "except" /\ exit_code' = exit_code /\ exc' = IOMessage(io)
    /\ UNCHANGED <<argc, taxa, true_tree, estimated_tree, common_taxa, rf_dist,
                   true_splits, est_splits, FN, FP>>
    /\ UNCHANGED sumVars

\* lines 128-131: the handler writes the error report; an exception raised
\* inside the handler is not caught and ends the process with a traceback
HandleException ==
    /\ pc = "except"
    /\ \E io \in IOOutcomes :
         /\ output_file' = FileAfter(output_file, io, ErrorReport(exc))
         /\ IF io = "ok"
            THEN pc' = "returned" /\ exit_code' = 0
            ELSE pc' = "crashed" /\ exit_code' = 1
    /\ UNCHANGED <<argc, taxa, true_tree, estimated_tree, common_taxa, rf_dist,
                   true_splits, est_splits, FN, FP, exc>>
    /\ UNCHANGED sumVars

Next ==
    \/ Usage
    \/ EnterTry
    \/ ReadTrueTree
    \/ ReadEstimatedTree
    \/ ComputeCommonTaxa
    \/ WriteInvalid
    \/ Prune
    \/ Metrics
    \/ WriteReport
    \/ HandleException

-----------------------------------------------------------------------------
(* summarize_results.py: values, report files and parse_comparison_file *)

\* largest number of report files the results directory holds
MaxRows == 3

\* np.nan
NaN == [nan |-> TRUE, v |-> 0]

\* a float, in thousandths
Num(x) == [nan |-> FALSE, v |-> x]

\* the strings float() accepts among the value strings of the report files,
\* with the float each gives, in thousandths
FloatTable ==
    [tok \in {"0.0", "0.1", "0.2", "2", "4"} |->
        CASE tok = "0.0" -> 0
          [] tok = "0.1" -> 100
          [] tok = "0.2" -> 200
          [] tok = "2" -> 2000
          [] OTHER -> 4000]

\* float(value) raises ValueError
FloatRaises(tok) == tok \notin DOMAIN FloatTable

\* float(value) if value != 'N/A' else np.nan
ParseValue(tok) == IF tok # "N/A" THEN Num(FloatTable[tok]) ELSE NaN

\* a line is the sequence of its parts between colons, each stripped;
\* `"RF distance:" in line`: a part that a colon follows is the key
LineContains(line, key) == \E i \in 1..(Len(line) - 1) : line[i] = key

\* line.split(":")[1].strip()
LineValue(line) == line[2]

\* results[key] = value
DictSet(d, key, value) ==
    [k \in DOMAIN d \cup {key} |-> IF k = key THEN value ELSE d[k]]

\* results.get(key, np.nan)
DictGet(d, key) == IF key \in DOMAIN d THEN d[key] ELSE NaN

EmptyDict == [k \in {} |-> NaN]

\* results = {'RF': np.nan, 'FN': np.nan, 'FP': np.nan}
AllNaNDict == [k \in {"RF", "FN", "FP"} |-> NaN]

\* the key a line sets, by the if/elif chain of lines 19-27 ("" if none)
LineKey(line) ==
    CASE LineContains(line, "RF distance") -> "RF"
      [] LineContains(line, "FN rate") -> "FN"
      [] LineContains(line, "FP rate") -> "FP"
      [] OTHER -> ""

RECURSIVE ParseLines(_, _)
\* the loop of lines 18-27: the dictionary built, or the exception raised
ParseLines(lines, results) ==
    IF lines = <<>> THEN [ok |-> TRUE, results |-> results]
    ELSE LET line == Head(lines)
             key == LineKey(line)
         IN  IF key = "" THEN ParseLines(Tail(lines), results)
             ELSE IF LineValue(line) # "N/A" /\ FloatRaises(LineValue(line))
                  THEN [ok |-> FALSE, results |-> results]
                  ELSE ParseLines(Tail(lines),
                                  DictSet(results, key, ParseValue(LineValue(line))))

\* parse_comparison_file: any exception (open, read, float) gives all-NaN
parse_comparison_file(file) ==
    IF ~file.readable THEN AllNaNDict
    ELSE LET r == ParseLines(file.lines, EmptyDict)
         IN  IF r.ok THEN r.results ELSE AllNaNDict

HeaderLine == <<"Tree comparison results", "">>

ReportFile(lines) == [readable |-> TRUE, lines |-> lines]

\* a report as compare_trees.py writes it on success
MetricFile(rf, fn, fp) ==
    ReportFile(<<HeaderLine, <<"RF distance", rf>>, <<"FN rate", fn>>, <<"FP rate", fp>>>>)

\* a metric report cut short after its FN line
TruncatedFile(rf, fn) ==
    ReportFile(<<HeaderLine, <<"RF distance", rf>>, <<"FN rate", fn>>>>)

\* the invalid-comparison report
InvalidFile ==
    ReportFile(<<HeaderLine,
                 <<"WARNING", "Less than 3 common taxa found. Comparison not valid.">>,
                 <<"Trees have different taxon sets.">>,
                 <<"True tree taxa", "2">>,
                 <<"Estimated tree taxa", "2">>,
                 <<"Common taxa", "2">>,
                 <<"RF distance", "N/A">>, <<"FN rate", "N/A">>, <<"FP rate", "N/A">>>>)

\* the error report
ErrorFile == ReportFile(<<<<"Tree comparison error", "cannot read tree as nexus">>>>)

\* a report file that cannot be opened
UnreadableFile == [readable |-> FALSE, lines |-> <<>>]

\* the report files a results directory may hold
ReportFiles ==
    { MetricFile("2", "0.1", "0.2"),
      MetricFile("4", "0.2", "0.0"),
      TruncatedFile("2", "0.1"),
      MetricFile("2", "abc", "0.2"),
      InvalidFile,
      ErrorFile,
      UnreadableFile }

NoReportFile == [readable |-> FALSE, lines |-> <<<<"no file parsed yet">>>>]

-----------------------------------------------------------------------------
(* summarize_results.py: main and create_plots *)

\* line 54
models == <<"1000M1", "1000M4">>

\* lines 45-51, the first two entries of the mapping (the loop body is the
\* same for every entry)
methods ==
    << [key |-> "fasttree_gtr", name |-> "FastTree (GTR)"],
       [key |-> "fasttree_jc", name |-> "FastTree (JC)"] >>

\* the replicate directories a model directory may hold
RepNames == <<"R1", "R2", "R3">>

\* the listings of a model directory: its first k replicate directories,
\* alone or after an entry that is no directory
Listings ==
    UNION { LET dirs == [i \in 1..k |-> [name |-> RepNames[i], isdir |-> TRUE]]
            IN  {dirs, <<[name |-> "notes.txt", isdir |-> FALSE]>> \o dirs}
            : k \in 0..Len(RepNames) }

\* lines 77-84
NewRow(model, method_name, rep, results) ==
    [Model |-> model, Method |-> method_name, Replicate |-> rep,
     RF |-> DictGet(results, "RF"),
     FN |-> DictGet(results, "FN"),
     FP |-> DictGet(results, "FP")]

RECURSIVE SumSeq(_)
SumSeq(s) == IF s = <<>> THEN 0 ELSE Head(s) + SumSeq(Tail(s))

\* mutant: missing values counted as 0
GroupValuesNaNAsZero(df, g, col) ==
    LET rows == SelectSeq(df, LAMBDA r : <<r.Model, r.Method>> = g)
    IN  [i \in 1..Len(rows) |-> IF rows[i][col].nan THEN 0 ELSE rows[i][col].v]

\* the non-missing values of column col in the rows of group g, in row order
GroupValues(df, g, col) ==
    LET rows == SelectSeq(df, LAMBDA r : <<r.Model, r.Method>> = g /\ ~r[col].nan)
    IN  [i \in 1..Len(rows) |-> rows[i][col].v]

NaNStat == [nan |-> TRUE, num |-> 0, den |-> 1]

\* pandas mean of a group: the sum of the non-missing values over their
\* number, missing when there is none
Mean(vals) ==
    IF Len(vals) = 0 THEN NaNStat
    ELSE [nan |-> FALSE, num |-> SumSeq(vals), den |-> Len(vals)]

\* pandas std of a group (ddof=1), given as its square: missing below two
\* non-missing values
Variance(vals) ==
    IF Len(vals) < 2 THEN NaNStat
    ELSE LET n == Len(vals)
             squares == [i \in 1..n |-> vals[i] * vals[i]]
         IN  [nan |-> FALSE,
              num |-> n * SumSeq(squares) - SumSeq(vals) * SumSeq(vals),
              den |-> n * (n - 1)]

Groups(df) == {<<df[i].Model, df[i].Method>> : i \in 1..Len(df)}

\* results_df.groupby(['Model', 'Method']).agg({'FN': ['mean', 'std'],
\*                                              'FP': ['mean', 'std']})
GroupAgg(df) ==
    [g \in Groups(df) |->
        [FN_mean |-> Mean(GroupValues(df, g, "FN")),
         FN_var |-> Variance(GroupValues(df, g, "FN")),
         FP_mean |-> Mean(GroupValues(df, g, "FP")),
         FP_var |-> Variance(GroupValues(df, g, "FP"))]]

\* df[col].isna().all()
AllNA(df, col) == \A i \in 1..Len(df) : df[i][col].nan

\* line 109: df.empty or df['FN'].isna().all() or df['FP'].isna().all()
SkipPlots(df) == Len(df) = 0 \/ AllNA(df, "FN") \/ AllNA(df, "FP")

\* create_plots: the files it saves
CreatedPlots(df) ==
    IF SkipPlots(df) THEN {}
    ELSE {"fn_rates_by_method.png", "fp_rates_by_method.png"}

NoCSV == [written |-> FALSE]

RawCSV(df) == [written |-> TRUE, rows |-> df]

SummaryCSV(summary) == [written |-> TRUE, groups |-> summary]

SumArgCounts == {0, 1, 2}

\* the state as main is entered; the Comparator is not running
SumInit ==
    /\ sargc \in SumArgCounts
    /\ spc = "main"
    /\ results_df = <<>>
    /\ model_idx = 1
    /\ listing = <<>>
    /\ rep_idx = 1
    /\ method_idx = 1
    /\ last_file = NoReportFile
    /\ found = <<>>
    /\ raw_csv = NoCSV
    /\ summary_csv = NoCSV
    /\ plots = {}
    /\ sexit = -1
    /\ pc = "main"
    /\ argc = 3
    /\ true_splits = {}
    /\ est_splits = {}
    /\ taxa = <<>>
    /\ true_tree = NoTree
    /\ estimated_tree = NoTree
    /\ common_taxa = {}
    /\ rf_dist = 0
    /\ FN = NoRate
    /\ FP = NoRate
    /\ output_file = NoFile
    /\ exc = ""
    /\ exit_code = -1

\* lines 34-36
SumUsage ==
    /\ spc = "main"
    /\ sargc # 1
    /\ spc' = "usage_exit"
    /\ sexit' = 1
    /\ UNCHANGED <<sargc, results_df, model_idx, listing, rep_idx, method_idx,
                   last_file, found, raw_csv, summary_csv, plots>>
    /\ UNCHANGED cmpVars

\* lines 38-51
SumStart ==
    /\ spc = "main"
    /\ sargc = 1
    /\ results_df' = <<>>
    /\ model_idx' = 1
    /\ spc' = "model"
    /\ UNCHANGED <<sargc, listing, rep_idx, method_idx, last_file, found, raw_csv,
                   summary_csv, plots, sexit>>
    /\ UNCHANGED cmpVars

RECURSIVE NextDirectory(_, _)
\* lines 61-64: the index of the first entry from i on that is a directory
\* (entries that are no directory are passed over), Len(l) + 1 if none
NextDirectory(l, i) ==
    IF i > Len(l) THEN i
    ELSE IF l[i].isdir THEN i ELSE NextDirectory(l, i + 1)

\* where the three nested loops stand once the replicate loop of model m,
\* listing l, is to go on from entry i: in the method loop of the next
\* replicate directory, or back in the model loop
EnterReplicate(m, l, i) ==
    LET r == NextDirectory(l, i)
    IN  IF r <= Len(l)
        THEN [spc |-> "method", model_idx |-> m, listing |-> l, rep_idx |-> r,
              method_idx |-> 1]
        ELSE [spc |-> "model", model_idx |-> m + 1, listing |-> <<>>, rep_idx |-> 1,
              method_idx |-> 1]

\* where the loops stand after the body of the method loop ran for method k
AfterMethod(m, l, r, k) ==
    IF k < Len(methods)
    THEN [spc |-> "method", model_idx |-> m, listing |-> l, rep_idx |-> r,
          method_idx |-> k + 1]
    ELSE EnterReplicate(m, l, r + 1)

GoTo(pos) ==
    /\ spc' = pos.spc
    /\ model_idx' = pos.model_idx
    /\ listing' = pos.listing
    /\ rep_idx' = pos.rep_idx
    /\ method_idx' = pos.method_idx

\* lines 54-58: os.path.exists(model_dir) is false
ModelDirMissing ==
    /\ spc = "model"
    /\ model_idx <= Len(models)
    /\ model_idx' = model_idx + 1
    /\ UNCHANGED <<spc, sargc, results_df, listing, rep_idx, method_idx,
                   last_file, found, raw_csv, summary_csv, plots, sexit>>
    /\ UNCHANGED cmpVars

\* lines 54-64: model_dir is a directory; os.listdir gives its entries and the
\* replicate loop runs up to its first directory
ModelDirListed ==
    /\ spc = "model"
    /\ model_idx <= Len(models)
    /\ \E l \in Listings : GoTo(EnterReplicate(model_idx, l, 1))
    /\ UNCHANGED <<sargc, results_df, last_file, found, raw_csv, summary_csv,
                   plots, sexit>>
    /\ UNCHANGED cmpVars

\* lines 54-61: model_dir exists and is not a directory; os.listdir raises
\* NotADirectoryError, which nothing catches
ModelDirNotADirectory ==
    /\ spc = "model"
    /\ model_idx <= Len(models)
    /\ spc' = "crashed"
    /\ sexit' = 1
    /\ UNCHANGED <<sargc, results_df, model_idx, listing, rep_idx, method_idx,
                   last_file, found, raw_csv, summary_csv, plots>>
    /\ UNCHANGED cmpVars

\* lines 70-73: os.path.exists(comparison_file) is false
MethodFileMissing ==
    /\ spc = "method"
    /\ GoTo(AfterMethod(model_idx, listing, rep_idx, method_idx))
    /\ UNCHANGED <<sargc, results_df, last_file, found, raw_csv, summary_csv,
                   plots, sexit>>
    /\ UNCHANGED cmpVars

\* lines 70-85: the report exists, is parsed and its row appended
MethodFileParsed ==
    /\ spc = "method"
    /\ Len(results_df) < MaxRows
    /\ \E file \in ReportFiles :
         /\ last_file' = file
         /\ results_df' = Append(results_df,
                                 NewRow(models[model_idx], methods[method_idx].name,
                                        listing[rep_idx].name,
                                        parse_comparison_file(file)))
    /\ found' = Append(found, [model |-> models[model_idx],
                                 rep |-> listing[rep_idx].name,
                                 key |-> methods[method_idx].key])
    /\ GoTo(AfterMethod(model_idx, listing, rep_idx, method_idx))
    /\ UNCHANGED <<sargc, raw_csv, summary_csv, plots, sexit>>
    /\ UNCHANGED cmpVars

\* lines 87-90
SaveRaw ==
    /\ spc = "model"
    /\ model_idx > Len(models)
    /\ raw_csv' = RawCSV(results_df)
    /\ spc' = "summarize"
    /\ UNCHANGED <<sargc, results_df, model_idx, listing, rep_idx, method_idx,
                   last_file, found, summary_csv, plots, sexit>>
    /\ UNCHANGED cmpVars

\* lines 92-101
Summarize ==
    /\ spc = "summarize"
    /\ summary_csv' = SummaryCSV(GroupAgg(results_df))
    /\ spc' = "plots"
    /\ UNCHANGED <<sargc, results_df, model_idx, listing, rep_idx, method_idx,
                   last_file, found, raw_csv, plots, sexit>>
    /\ UNCHANGED cmpVars

\* lines 103-149
CreatePlots ==
    /\ spc = "plots"
    /\ plots' = CreatedPlots(results_df)
    /\ spc' = "done"
    /\ sexit' = 0
    /\ UNCHANGED <<sargc, results_df, model_idx, listing, rep_idx, method_idx,
                   last_file, found, raw_csv, summary_csv>>
    /\ UNCHANGED cmpVars

SumNext ==
    \/ SumUsage
    \/ SumStart
    \/ ModelDirMissing
    \/ ModelDirListed
    \/ ModelDirNotADirectory
    \/ MethodFileMissing
    \/ MethodFileParsed
    \/ SaveRaw
    \/ Summarize
    \/ CreatePlots

-----------------------------------------------------------------------------
(* The rate expressions of lines 108-117 on arbitrary split sets *)

\* largest split bitmask of the split sets the rates are computed from
MaxSplit == 3

SplitUniverse == 0..MaxSplit

RatesInit ==
    /\ pc = "rates"
    /\ argc = 3
    /\ true_splits \in SUBSET SplitUniverse
    /\ est_splits \in SUBSET SplitUniverse
    /\ taxa = <<>>
    /\ true_tree = NoTree
    /\ estimated_tree = NoTree
    /\ common_taxa = {}
    /\ rf_dist = 0
    /\ FN = NoRate
    /\ FP = NoRate
    /\ output_file = NoFile
    /\ exc = ""
    /\ exit_code = -1
    /\ sargc = 1
    /\ spc = "main"
    /\ results_df = <<>>
    /\ model_idx = 1
    /\ listing = <<>>
    /\ rep_idx = 1
    /\ method_idx = 1
    /\ last_file = NoReportFile
    /\ found = <<>>
    /\ raw_csv = NoCSV
    /\ summary_csv = NoCSV
    /\ plots = {}
    /\ sexit = -1

\* lines 112-117
ComputeRates ==
    /\ pc = "rates"
    /\ FN' = FalseNegativeRate(true_splits, est_splits)
    /\ FP' = FalsePositiveRate(true_splits, est_splits)
    /\ pc' = "rated"
    /\ UNCHANGED <<argc, taxa, true_tree, estimated_tree, common_taxa, rf_dist,
                   true_splits, est_splits, output_file, exc, exit_code>>
    /\ UNCHANGED sumVars

-----------------------------------------------------------------------------
(* Specifications *)

\* the state as main is entered; the Summarizer is not running
Init ==
    /\ pc = "main"
    /\ argc \in ArgCounts
    /\ true_splits = {}
    /\ est_splits = {}
    /\ taxa = <<>>
    /\ true_tree = NoTree
    /\ estimated_tree = NoTree
    /\ common_taxa = {}
    /\ rf_dist = 0
    /\ FN = NoRate
    /\ FP = NoRate
    /\ output_file = NoFile
    /\ exc = ""
    /\ exit_code = -1
    /\ sargc = 1
    /\ spc = "main"
    /\ results_df = <<>>
    /\ model_idx = 1
    /\ listing = <<>>
    /\ rep_idx = 1
    /\ method_idx = 1
    /\ last_file = NoReportFile
    /\ found = <<>>
    /\ raw_csv = NoCSV
    /\ summary_csv = NoCSV
    /\ plots = {}
    /\ sexit = -1

\* one run of compare_trees.py
Spec == Init /\ [][Next]_vars

\* one run of summarize_results.py
SpecSummarizer == SumInit /\ [][SumNext]_vars

RatesNext == ComputeRates

\* the rate expressions applied to every pair of split sets
SpecRates == RatesInit /\ [][RatesNext]_vars

-----------------------------------------------------------------------------
(* The comparison of two trees as one expression, for the claims *)

\* lines 23-105 for a true tree t and an estimated tree e: the namespace both
\* are read into, the pruning when the test of line 88 asks for it, and the
\* distance
CompareRF(t, e) ==
    LET ns == AddTaxa(AddTaxa(<<>>, t.leaves), e.leaves)
        common == CommonTaxa(ns)
        prune == NeedsPruning(common, ns)
        t2 == IF prune THEN RetainTaxaWithLabels(t, common) ELSE t
        e2 == IF prune THEN RetainTaxaWithLabels(e, common) ELSE e
    IN  SymmetricDifference(ns, t2, e2)

\* the leaf labels present in both trees
SharedLeaves == LeafSet(true_tree) \cap LeafSet(estimated_tree)

\* the test of line 88 never asks for pruning: common_taxa holds every label
\* of the one namespace both trees share
PruningNeverAsked == pc = "prune" => ~NeedsPruning(common_taxa, taxa)

\* in a run of main neither split set is empty: the leaf edges and the root
\* edge are encoded
SplitSetsNotEmpty == pc = "write_report" => (true_splits # {} /\ est_splits # {})

\* the run of main has ended, by return or by an uncaught exception
Ended == pc \in {"returned", "crashed"}

\* the report kinds the Comparator is meant to leave behind
CompleteReport == output_file.kind \in {"metrics", "invalid", "error"}

-----------------------------------------------------------------------------
(* Claims about compare_trees.py *)

\* C1: every run with three arguments ends with the output report written:
\* the metric lines, the invalid-comparison report or the error line, also
\* when the exception is raised while the report is being written.
C1_ReportAlwaysWritten == Ended => CompleteReport

\* C2: when fewer than 3 leaf labels are present in both trees, the report
\* written is the invalid-comparison report with RF, FN and FP "N/A", and no
\* numeric metric is computed.
C2_FewSharedTaxaGiveInvalidReport ==
    (pc = "returned" /\ output_file.kind # "error" /\ Cardinality(SharedLeaves) < 3)
        => /\ output_file.kind = "invalid"
           /\ output_file.rf = "N/A" /\ output_file.fn = "N/A" /\ output_file.fp = "N/A"
           /\ FN = NoRate /\ FP = NoRate

\* C3: when at least 3 leaf labels are present in both trees, the trees the
\* bipartitions are derived from have exactly those leaves, so every split is
\* a set of shared labels only.
C3_PrunedToSharedTaxa ==
    (pc = "write_report" /\ Cardinality(SharedLeaves) >= 3)
        => /\ LeafSet(true_tree) = SharedLeaves
           /\ LeafSet(estimated_tree) = SharedLeaves
           /\ \A m \in true_splits \cup est_splits :
                \E c \in SUBSET SharedLeaves : m = LeafsetBitmask(taxa, c)

\* C4: the reported RF distance is the size of the symmetric difference of
\* the two split sets FN and FP are computed from, and comparing the trees
\* the other way round gives the same distance.
C4_RFSymmetricDifference ==
    pc = "write_report"
        => /\ rf_dist = Cardinality(MissingSplits(true_splits, est_splits))
                        + Cardinality(ExtraSplits(true_splits, est_splits))
           /\ rf_dist = CompareRF(true_tree, estimated_tree)
           /\ rf_dist = CompareRF(estimated_tree, true_tree)

\* C4 witness: two trees with 3 or more shared labels, read in different leaf
\* orders, at a positive distance
C4_Witness ==
    /\ pc = "write_report"
    /\ Cardinality(SharedLeaves) >= 3
    /\ true_tree.leaves # estimated_tree.leaves
    /\ Cardinality(MissingSplits(true_splits, est_splits)) = 1
    /\ Cardinality(ExtraSplits(true_splits, est_splits)) = 2

\* C6: for (((A,B),C),(D,E)) against ((A,B),(C,(D,E))) the report gives RF
\* distance 2, one split of each tree being absent from the other.
C6_ExampleRFIsTwo ==
    (/\ true_tree = ExampleTrueTree
     /\ estimated_tree = ExampleEstimatedTree
     /\ pc = "returned"
     /\ output_file.kind = "metrics")
        => /\ output_file.rf = 2
           /\ Cardinality(MissingSplits(true_splits, est_splits)) = 1
           /\ Cardinality(ExtraSplits(true_splits, est_splits)) = 1
           /\ output_file.fn.num = 1
           /\ output_file.fp.num = 1

\* C6 witness: the report of the example has been written
C6_Witness ==
    /\ true_tree = ExampleTrueTree
    /\ estimated_tree = ExampleEstimatedTree
    /\ pc = "returned"
    /\ output_file.kind = "metrics"
    /\ common_taxa = {"A", "B", "C", "D", "E"}

\* the two trees have the same leaves and the same (rooted) topology
SameTopology ==
    /\ LeafSet(true_tree) = LeafSet(estimated_tree)
    /\ true_tree.clades = estimated_tree.clades

\* C7: two trees with identical leaf sets (3 or more leaves) and identical
\* topology get the metric report with RF 0, FN 0 and FP 0.
C7_IdenticalTreesGiveZero ==
    (/\ pc = "returned"
     /\ output_file.kind # "error"
     /\ SameTopology
     /\ Cardinality(LeafSet(true_tree)) >= 3)
        => /\ output_file.kind = "metrics"
           /\ output_file.rf = 0
           /\ output_file.fn.num = 0 /\ output_file.fn.den > 0
           /\ output_file.fp.num = 0 /\ output_file.fp.den > 0

\* C7 witness: the same topology written in two leaf orders, with an
\* internal node below the root, reported
C7_Witness ==
    /\ pc = "returned"
    /\ output_file.kind = "metrics"
    /\ SameTopology
    /\ Cardinality(LeafSet(true_tree)) >= 3
    /\ Cardinality(true_tree.clades) > Cardinality(LeafSet(true_tree)) + 1
    /\ true_tree.leaves # estimated_tree.leaves

-----------------------------------------------------------------------------
(* Claims about the rate expressions *)

\* a rate that is 1.0
IsOne(rate) == rate.den > 0 /\ rate.num = rate.den

\* a rate that is 0.0
IsZero(rate) == rate.den > 0 /\ rate.num = 0

\* the quotients of C5, where the denominators are not 0
RatesAreQuotients ==
    /\ true_splits # {}
         => /\ FN.num = Cardinality(true_splits \ est_splits)
            /\ FN.den = Cardinality(true_splits)
    /\ est_splits # {}
         => /\ FP.num = Cardinality(est_splits \ true_splits)
            /\ FP.den = Cardinality(est_splits)

-----------------------------------------------------------------------------
(* Claims about summarize_results.py *)

Columns == {"RF", "FN", "FP"}

\* the row appended last
LastRow == results_df[Len(results_df)]

\* the rows of group g whose value in column col is not missing
Present(g, col) ==
    {i \in 1..Len(results_df) :
        <<results_df[i].Model, results_df[i].Method>> = g /\ ~results_df[i][col].nan}

RECURSIVE SumColumn(_, _)
SumColumn(rows, col) ==
    IF rows = {} THEN 0
    ELSE LET i == CHOOSE x \in rows : TRUE
         IN  results_df[i][col].v + SumColumn(rows \ {i}, col)

\* mean is the mean of column col over the non-missing rows of group g
IsGroupMean(mean, g, col) ==
    IF Present(g, col) = {} THEN mean.nan
    ELSE /\ ~mean.nan
         /\ mean.num * Cardinality(Present(g, col)) = SumColumn(Present(g, col), col) * mean.den

\* group g is three reports with FN 0.1, 0.2 and a missing value
IsExampleGroup(g) ==
    /\ Cardinality({i \in 1..Len(results_df) :
                      <<results_df[i].Model, results_df[i].Method>> = g}) = 3
    /\ {results_df[i].FN.v : i \in Present(g, "FN")} = {100, 200}
    /\ Cardinality(Present(g, "FN")) = 2

\* C8: a report value "N/A" is recorded as a missing value, never as 0, and
\* the mean of FN (and of FP) of a (model, method) group is taken over its
\* non-missing values: 0.1, 0.2 and N/A give 0.15, and a group with no
\* non-missing value gives a missing mean.
C8_MissingValuesIgnoredInMeans ==
    /\ (Len(results_df) > 0 /\ last_file.readable)
         => \A i \in 1..Len(last_file.lines) : \A col \in Columns :
              (LineKey(last_file.lines[i]) = col /\ LineValue(last_file.lines[i]) = "N/A")
                 => (LastRow[col] = NaN /\ LastRow[col] # Num(0))
    /\ spc \in {"plots", "done"}
         => /\ DOMAIN summary_csv.groups = Groups(results_df)
            /\ \A g \in Groups(results_df) :
                 /\ IsGroupMean(summary_csv.groups[g].FN_mean, g, "FN")
                 /\ IsGroupMean(summary_csv.groups[g].FP_mean, g, "FP")
                 /\ IsExampleGroup(g)
                      => summary_csv.groups[g].FN_mean.num
                           = 150 * summary_csv.groups[g].FN_mean.den

\* C8 witness: the summary of a group of three reports with FN 0.1, 0.2 and
\* N/A, the N/A report parsed last
C8_Witness ==
    /\ spc = "done"
    /\ last_file = InvalidFile
    /\ \E g \in Groups(results_df) :
         /\ IsExampleGroup(g)
         /\ ~summary_csv.groups[g].FN_mean.nan

\* the display name of the method with key k
MethodName(k) == (CHOOSE i \in 1..Len(methods) : methods[i].key = k)

\* the raw table written holds one row per report file found, in loop order
RawTableMatchesReports ==
    spc \in {"summarize", "plots", "done"}
        => /\ raw_csv.written
           /\ Len(raw_csv.rows) = Len(found)
           /\ \A i \in 1..Len(found) :
                /\ raw_csv.rows[i].Model = found[i].model
                /\ raw_csv.rows[i].Replicate = found[i].rep
                /\ raw_csv.rows[i].Method = methods[MethodName(found[i].key)].name

\* a report that cannot be read, holds a value float() rejects, or holds none
\* of the three lines still gives its row, with RF, FN and FP missing
UnparsedReportGivesMissingRow ==
    (/\ Len(results_df) > 0
     /\ \/ ~last_file.readable
        \/ ~ParseLines(last_file.lines, EmptyDict).ok
        \/ \A i \in 1..Len(last_file.lines) : LineKey(last_file.lines[i]) = "")
        => /\ Len(results_df) = Len(found)
           /\ \A col \in Columns : LastRow[col] = NaN

\* C9: the raw table ends with exactly one row for each existing report file,
\* in iteration order; a missing model directory, an entry that is no
\* directory or a missing report adds no row and does not stop the run, and
\* an unparsable report still adds its row, all missing.
C9_OneRowPerExistingReport ==
    /\ spc # "crashed"
    /\ RawTableMatchesReports
    /\ UnparsedReportGivesMissingRow

\* C10: the FN chart is skipped exactly when the raw table is empty or every
\* FN value is missing, and the FP chart exactly when the table is empty or
\* every FP value is missing.
C10_EachChartSkippedOnItsOwnColumn ==
    spc = "done"
        => /\ ("fn_rates_by_method.png" \notin plots)
                <=> (Len(results_df) = 0 \/ AllNA(results_df, "FN"))
           /\ ("fp_rates_by_method.png" \notin plots)
                <=> (Len(results_df) = 0 \/ AllNA(results_df, "FP"))

====
